---- MODULE Spec2Model ----
(***************************************************************************)
(* Model of the lucene_query_parser library: TextNormalizer.normalize, the *)
(* deterministic renderer, the AST serializer and LuceneQueryParser.parse. *)
(* Python str values are TLA+ strings; the external grammar parser (luqum) *)
(* is an oracle that either rejects a query or returns a node tree.        *)
(***************************************************************************)
EXTENDS FiniteSets, Integers, Sequences, TLC

VARIABLES pc, n_in, n_out, query, grammar, ast_tree, deterministic_text,
          narrative_text, ast_json, result, raised,
          held, as_dict, response, file

vars == <<pc, n_in, n_out, query, grammar, ast_tree, deterministic_text,
          narrative_text, ast_json, result, raised, held, as_dict, response,
          file>>

(***************************************************************************)
(* Bounds of the model.                                                    *)
(***************************************************************************)
MaxParts == 3
MaxChildren == 2
MaxWrap == 2
MaxCalls == 2

(***************************************************************************)
(* Python values.                                                          *)
(***************************************************************************)
PyNone == [py |-> "None"]
PyStr(s) == [py |-> "str", s |-> s]
PyBytes(b) == [py |-> "bytes", b |-> b]
NoError == [kind |-> "none", msg |-> ""]
Ok(v) == [ok |-> TRUE, v |-> v]
Raise(kind, msg) == [ok |-> FALSE, v |-> [kind |-> kind, msg |-> msg]]

(***************************************************************************)
(* Python str primitives.                                                  *)
(***************************************************************************)
CharAt(s, i) == SubSeq(s, i, i)

StartsWithAt(s, i, old) ==
    /\ i + Len(old) - 1 <= Len(s)
    /\ SubSeq(s, i, i + Len(old) - 1) = old

\* str.replace(old, new) for a non-empty old: leftmost, non-overlapping.
RECURSIVE ReplaceFrom(_, _, _, _)
ReplaceFrom(s, i, old, new) ==
    LET matches == {j \in i..(Len(s) - Len(old) + 1) : StartsWithAt(s, j, old)}
    IN  IF matches = {} THEN SubSeq(s, i, Len(s))
        ELSE LET j == CHOOSE m \in matches : \A n \in matches : m <= n
             IN  SubSeq(s, i, j - 1) \o new \o ReplaceFrom(s, j + Len(old), old, new)

\* str.replace that stops after the first occurrence.
Replace_FirstOnly(s, old, new) ==
    LET matches == {j \in 1..(Len(s) - Len(old) + 1) : StartsWithAt(s, j, old)}
    IN  IF matches = {} THEN s
        ELSE LET j == CHOOSE m \in matches : \A n \in matches : m <= n
             IN  SubSeq(s, 1, j - 1) \o new \o SubSeq(s, j + Len(old), Len(s))

Replace(s, old, new) == ReplaceFrom(s, 1, old, new)

Contains(s, sub) == \E i \in 1..(Len(s) - Len(sub) + 1) : StartsWithAt(s, i, sub)

EndsWith(s, suffix) ==
    /\ Len(s) >= Len(suffix)
    /\ SubSeq(s, Len(s) - Len(suffix) + 1, Len(s)) = suffix

\* The characters str.strip() removes when called without an argument: the
\* characters for which str.isspace() holds.  Listed are those a string of
\* this module can hold: U+0009..U+000D, U+001C..U+001F, U+0020, U+0085,
\* U+00A0 and U+1680.  (U+2000..U+200A, U+2028, U+2029, U+202F, U+205F and
\* U+3000 are whitespace to Python too, but cannot be written in a string
\* here, so no input of the model contains them.)
Whitespace ==
    {"\t", "\n", "", "\f", "\r", "", "",
     "", "", " ", "", " ", " "}

\* str.strip(chars): drop leading and trailing characters that are in chars.
RECURSIVE LStripChars(_, _)
LStripChars(s, chars) ==
    IF Len(s) > 0 /\ CharAt(s, 1) \in chars
    THEN LStripChars(SubSeq(s, 2, Len(s)), chars) ELSE s

RECURSIVE RStripChars(_, _)
RStripChars(s, chars) ==
    IF Len(s) > 0 /\ CharAt(s, Len(s)) \in chars
    THEN RStripChars(SubSeq(s, 1, Len(s) - 1), chars) ELSE s

StripChars(s, chars) == RStripChars(LStripChars(s, chars), chars)

PyStrip(s) == StripChars(s, Whitespace)

\* Python's case table for str.upper(): the i-th character of LowerLetters
\* becomes the i-th text of UpperLetters (one to three characters: the
\* German sharp s becomes "SS").  Every character whose upper-case form
\* differs from it is listed, as far as both can be written in a string of
\* this module.
LowerLetters ==
    "abcdefghijklmnopqrstuvwxyzµßàáâãäåæçèéêë" \o
    "ìíîïðñòóôõöøùúûüýþƃƅƈƌƒƕƙơƣƥƨƭưƴƶƹƽƿǅǆǈǉ" \o
    "ǋǌǎǐǒǔǖǘǚǜǝǟǡǣǥǧǩǫǭǯǲǳǵǹǻǽǿʀʂʃʇʈʊʋʒʝʞάέή" \o
    "ίαβγδεζηθικλμνξοπρςστυφχψωϊϋόύώϐϑϕϖϗϙϛϝϟ" \o
    "ϡϣϥϧϩϫϭϯϰϱϲϵϸϻҁҋҍҏґғҕҗҙқҝҟҡңҥҧҩҫҭүұҳҵҷҹһ" \o
    "ҽҿӂӄӆӈӊӌӎӏӑӓӕӗәӛӝӟӡӣӥӧөӫӭӯӱӳӵӷӹӻӽӿაბგდევ" \o
    "ზთიკლმნოპჟრსტუფქღყშჩცძწჭხჯჰჱჲჳჴჵჶჷჸჹჺჽჾჿ" \o
    "ᏸᏹᏺᏻᏼᏽᶎẁẃẅẇẉẋẍẏẑẓẕẚạảấầẩẫậắằẳẵặẹẻẽếềểễệỉ" \o
    "ịọỏốồổỗộớờởỡợụủứừửữựỳỵỷỹỻỽỿᾰᾱᾲᾳᾴᾼιῂῃῄῌῐῑ" \o
    "ῠῡῥῲῳῴῼↄⓐⓑⓒⓓⓔⓕⓖⓗⓘⓙⓚⓛⓜⓝⓞⓟⓠⓡⓢⓣⓤⓥⓦⓧⓨⓩⲁⲃⲅⲇⲉⲋ" \o
    "ⲍⲏⲑⲓⲕⲗⲙⲛⲝⲟⲡⲣⲥⲧⲩⲫⲭⲯⲱⲳⲵⲷⲹⲻⲽⲿⳁⳃⳅⳇⳉⳋⳍⳏⳑⳓⳕⳗⳙⳛ" \o
    "ⳝⳟⳡⳣⳬⳮⳳꚁꚃꚅꚇꚉꚋꚍꚏꚑꚓꚕꚗꚙꚛꞁꞃꞅꞇꞌꞑꞓꞔꞗꞙꞛꞝꞟꞡꞣꞥꞧꞩꞵ" \o
    "ꞷꞹꞻꞽꞿꟁꟃꟈꟊꟑꟗꟙꟶꮀꮁꮂꮃꮄꮅꮆꮇꮈꮉꮊꮋꮌꮍꮎꮏꮐꮑꮒꮓꮔꮕꮖꮗꮘꮙꮚ" \o
    "ꮛꮜꮝꮞꮟꮠꮡꮢꮣꮤꮥꮦꮧꮨꮩꮪꮫꮬꮭꮮꮯꮰꮱꮲꮳꮴꮵꮶꮷꮸꮹꮺꮻꮼꮽꮾꮿ"

UpperLetters ==
    <<"A", "B", "C", "D", "E", "F", "G", "H", "I", "J", "K", "L",
      "M", "N", "O", "P", "Q", "R", "S", "T", "U", "V", "W", "X",
      "Y", "Z", "Μ", "SS", "À", "Á", "Â", "Ã", "Ä", "Å", "Æ", "Ç",
      "È", "É", "Ê", "Ë", "Ì", "Í", "Î", "Ï", "Ð", "Ñ", "Ò", "Ó",
      "Ô", "Õ", "Ö", "Ø", "Ù", "Ú", "Û", "Ü", "Ý", "Þ", "Ƃ", "Ƅ",
      "Ƈ", "Ƌ", "Ƒ", "Ƕ", "Ƙ", "Ơ", "Ƣ", "Ƥ", "Ƨ", "Ƭ", "Ư", "Ƴ",
      "Ƶ", "Ƹ", "Ƽ", "Ƿ", "Ǆ", "Ǆ", "Ǉ", "Ǉ", "Ǌ", "Ǌ", "Ǎ", "Ǐ",
      "Ǒ", "Ǔ", "Ǖ", "Ǘ", "Ǚ", "Ǜ", "Ǝ", "Ǟ", "Ǡ", "Ǣ", "Ǥ", "Ǧ",
      "Ǩ", "Ǫ", "Ǭ", "Ǯ", "Ǳ", "Ǳ", "Ǵ", "Ǹ", "Ǻ", "Ǽ", "Ǿ", "Ʀ",
      "Ʂ", "Ʃ", "Ʇ", "Ʈ", "Ʊ", "Ʋ", "Ʒ", "Ʝ", "Ʞ", "Ά", "Έ", "Ή",
      "Ί", "Α", "Β", "Γ", "Δ", "Ε", "Ζ", "Η", "Θ", "Ι", "Κ", "Λ",
      "Μ", "Ν", "Ξ", "Ο", "Π", "Ρ", "Σ", "Σ", "Τ", "Υ", "Φ", "Χ",
      "Ψ", "Ω", "Ϊ", "Ϋ", "Ό", "Ύ", "Ώ", "Β", "Θ", "Φ", "Π", "Ϗ",
      "Ϙ", "Ϛ", "Ϝ", "Ϟ", "Ϡ", "Ϣ", "Ϥ", "Ϧ", "Ϩ", "Ϫ", "Ϭ", "Ϯ",
      "Κ", "Ρ", "Ϲ", "Ε", "Ϸ", "Ϻ", "Ҁ", "Ҋ", "Ҍ", "Ҏ", "Ґ", "Ғ",
      "Ҕ", "Җ", "Ҙ", "Қ", "Ҝ", "Ҟ", "Ҡ", "Ң", "Ҥ", "Ҧ", "Ҩ", "Ҫ",
      "Ҭ", "Ү", "Ұ", "Ҳ", "Ҵ", "Ҷ", "Ҹ", "Һ", "Ҽ", "Ҿ", "Ӂ", "Ӄ",
      "Ӆ", "Ӈ", "Ӊ", "Ӌ", "Ӎ", "Ӏ", "Ӑ", "Ӓ", "Ӕ", "Ӗ", "Ә", "Ӛ",
      "Ӝ", "Ӟ", "Ӡ", "Ӣ", "Ӥ", "Ӧ", "Ө", "Ӫ", "Ӭ", "Ӯ", "Ӱ", "Ӳ",
      "Ӵ", "Ӷ", "Ӹ", "Ӻ", "Ӽ", "Ӿ", "Ა", "Ბ", "Გ", "Დ", "Ე", "Ვ",
      "Ზ", "Თ", "Ი", "Კ", "Ლ", "Მ", "Ნ", "Ო", "Პ", "Ჟ", "Რ", "Ს",
      "Ტ", "Უ", "Ფ", "Ქ", "Ღ", "Ყ", "Შ", "Ჩ", "Ც", "Ძ", "Წ", "Ჭ",
      "Ხ", "Ჯ", "Ჰ", "Ჱ", "Ჲ", "Ჳ", "Ჴ", "Ჵ", "Ჶ", "Ჷ", "Ჸ", "Ჹ",
      "Ჺ", "Ჽ", "Ჾ", "Ჿ", "Ᏸ", "Ᏹ", "Ᏺ", "Ᏻ", "Ᏼ", "Ᏽ", "Ᶎ", "Ẁ",
      "Ẃ", "Ẅ", "Ẇ", "Ẉ", "Ẋ", "Ẍ", "Ẏ", "Ẑ", "Ẓ", "Ẕ", "Aʾ", "Ạ",
      "Ả", "Ấ", "Ầ", "Ẩ", "Ẫ", "Ậ", "Ắ", "Ằ", "Ẳ", "Ẵ", "Ặ", "Ẹ",
      "Ẻ", "Ẽ", "Ế", "Ề", "Ể", "Ễ", "Ệ", "Ỉ", "Ị", "Ọ", "Ỏ", "Ố",
      "Ồ", "Ổ", "Ỗ", "Ộ", "Ớ", "Ờ", "Ở", "Ỡ", "Ợ", "Ụ", "Ủ", "Ứ",
      "Ừ", "Ử", "Ữ", "Ự", "Ỳ", "Ỵ", "Ỷ", "Ỹ", "Ỻ", "Ỽ", "Ỿ", "Ᾰ",
      "Ᾱ", "ᾺΙ", "ΑΙ", "ΆΙ", "ΑΙ", "Ι", "ῊΙ", "ΗΙ", "ΉΙ", "ΗΙ", "Ῐ", "Ῑ",
      "Ῠ", "Ῡ", "Ῥ", "ῺΙ", "ΩΙ", "ΏΙ", "ΩΙ", "Ↄ", "Ⓐ", "Ⓑ", "Ⓒ", "Ⓓ",
      "Ⓔ", "Ⓕ", "Ⓖ", "Ⓗ", "Ⓘ", "Ⓙ", "Ⓚ", "Ⓛ", "Ⓜ", "Ⓝ", "Ⓞ", "Ⓟ",
      "Ⓠ", "Ⓡ", "Ⓢ", "Ⓣ", "Ⓤ", "Ⓥ", "Ⓦ", "Ⓧ", "Ⓨ", "Ⓩ", "Ⲁ", "Ⲃ",
      "Ⲅ", "Ⲇ", "Ⲉ", "Ⲋ", "Ⲍ", "Ⲏ", "Ⲑ", "Ⲓ", "Ⲕ", "Ⲗ", "Ⲙ", "Ⲛ",
      "Ⲝ", "Ⲟ", "Ⲡ", "Ⲣ", "Ⲥ", "Ⲧ", "Ⲩ", "Ⲫ", "Ⲭ", "Ⲯ", "Ⲱ", "Ⲳ",
      "Ⲵ", "Ⲷ", "Ⲹ", "Ⲻ", "Ⲽ", "Ⲿ", "Ⳁ", "Ⳃ", "Ⳅ", "Ⳇ", "Ⳉ", "Ⳋ",
      "Ⳍ", "Ⳏ", "Ⳑ", "Ⳓ", "Ⳕ", "Ⳗ", "Ⳙ", "Ⳛ", "Ⳝ", "Ⳟ", "Ⳡ", "Ⳣ",
      "Ⳬ", "Ⳮ", "Ⳳ", "Ꚁ", "Ꚃ", "Ꚅ", "Ꚇ", "Ꚉ", "Ꚋ", "Ꚍ", "Ꚏ", "Ꚑ",
      "Ꚓ", "Ꚕ", "Ꚗ", "Ꚙ", "Ꚛ", "Ꞁ", "Ꞃ", "Ꞅ", "Ꞇ", "Ꞌ", "Ꞑ", "Ꞓ",
      "Ꞔ", "Ꞗ", "Ꞙ", "Ꞛ", "Ꞝ", "Ꞟ", "Ꞡ", "Ꞣ", "Ꞥ", "Ꞧ", "Ꞩ", "Ꞵ",
      "Ꞷ", "Ꞹ", "Ꞻ", "Ꞽ", "Ꞿ", "Ꟁ", "Ꟃ", "Ꟈ", "Ꟊ", "Ꟑ", "Ꟗ", "Ꟙ",
      "Ꟶ", "Ꮀ", "Ꮁ", "Ꮂ", "Ꮃ", "Ꮄ", "Ꮅ", "Ꮆ", "Ꮇ", "Ꮈ", "Ꮉ", "Ꮊ",
      "Ꮋ", "Ꮌ", "Ꮍ", "Ꮎ", "Ꮏ", "Ꮐ", "Ꮑ", "Ꮒ", "Ꮓ", "Ꮔ", "Ꮕ", "Ꮖ",
      "Ꮗ", "Ꮘ", "Ꮙ", "Ꮚ", "Ꮛ", "Ꮜ", "Ꮝ", "Ꮞ", "Ꮟ", "Ꮠ", "Ꮡ", "Ꮢ",
      "Ꮣ", "Ꮤ", "Ꮥ", "Ꮦ", "Ꮧ", "Ꮨ", "Ꮩ", "Ꮪ", "Ꮫ", "Ꮬ", "Ꮭ", "Ꮮ",
      "Ꮯ", "Ꮰ", "Ꮱ", "Ꮲ", "Ꮳ", "Ꮴ", "Ꮵ", "Ꮶ", "Ꮷ", "Ꮸ", "Ꮹ", "Ꮺ",
      "Ꮻ", "Ꮼ", "Ꮽ", "Ꮾ", "Ꮿ">>

\* Characters with an upper-case form that no string of this module can
\* hold (y with diaeresis, whose upper-case form is U+0178, is the one below
\* U+0100).  The model has no value for their upper-case form.
NoUpperLetters ==
    "ÿƀƚƞǰʉʌΐΰϳրցւփքօֆևᲀᲁᲂᲃᲄᲅᲆᲇᲈẖẗẘẙẛᾀᾁᾂᾃᾄᾅᾆᾇ" \o
    "ᾈᾉᾊᾋᾌᾍᾎᾏᾐᾑᾒᾓᾔᾕᾖᾗᾘᾙᾚᾛᾜᾝᾞᾟᾠᾡᾢᾣᾤᾥᾦᾧᾨᾩᾪᾫᾬᾭᾮᾯ" \o
    "ᾶᾷῆῇῒΐῖῗῢΰῤῦῧῶῷ"

\* str.upper() of one character: Unicode-aware, and not always one character.
Upper(c) ==
    IF \E i \in 1..Len(LowerLetters) : CharAt(LowerLetters, i) = c
    THEN UpperLetters[CHOOSE i \in 1..Len(LowerLetters) : CharAt(LowerLetters, i) = c]
    ELSE IF \E i \in 1..Len(NoUpperLetters) : CharAt(NoUpperLetters, i) = c
    THEN CHOOSE u \in {} : TRUE
    ELSE c

\* s[i] with a 0-based non-negative index: IndexError when out of range.
PyIndex(s, i) ==
    IF i < Len(s) THEN Ok(CharAt(s, i + 1))
    ELSE Raise("IndexError", "string index out of range")

\* s[i:] with a 0-based non-negative index: never raises.
PySliceFrom(s, i) == SubSeq(s, i + 1, Len(s))

RECURSIVE Join(_, _)
Join(sep, items) ==
    IF Len(items) = 0 THEN ""
    ELSE IF Len(items) = 1 THEN items[1]
    ELSE items[1] \o sep \o Join(sep, Tail(items))

(***************************************************************************)
(* TextNormalizer.normalize                                                *)
(***************************************************************************)
\* Replacements without its last rule, the deletion of ")".
Replacements_KeepCloseParen == <<
    <<"Include items that match ANY of: (",
      "Search for documents containing any of the following: ">>,
    <<"Include items that match ALL of: (",
      "Search for documents that must contain all of the following: ">>,
    <<"EXCLUDE items where: (",
      "but exclude documents where ">>,
    <<"but exclude documents where Search for documents containing any of the following: ",
      "but exclude documents containing any of: ">>,
    <<"contains \"", "the term \"">>,
    <<": contains the EXACT PHRASE", " must contain the exact phrase">>,
    <<": contains ANY of [", " contains any of [">>,
    <<": contains ALL of [", " must contain all of [">>,
    <<"; ", ", ">> >>

\* Replacements with the collapse of the excluded any-of clause applied
\* first, before the texts it joins exist.
Replacements_CollapseFirst == <<
    <<"but exclude documents where Search for documents containing any of the following: ",
      "but exclude documents containing any of: ">>,
    <<"Include items that match ANY of: (",
      "Search for documents containing any of the following: ">>,
    <<"Include items that match ALL of: (",
      "Search for documents that must contain all of the following: ">>,
    <<"EXCLUDE items where: (",
      "but exclude documents where ">>,
    <<"contains \"", "the term \"">>,
    <<": contains the EXACT PHRASE", " must contain the exact phrase">>,
    <<": contains ANY of [", " contains any of [">>,
    <<": contains ALL of [", " must contain all of [">>,
    <<"; ", ", ">>,
    <<")", "">> >>

\* The ordered literal replacements of normalize, as <<old, new>> pairs.
Replacements == <<
    <<"Include items that match ANY of: (",
      "Search for documents containing any of the following: ">>,
    <<"Include items that match ALL of: (",
      "Search for documents that must contain all of the following: ">>,
    <<"EXCLUDE items where: (",
      "but exclude documents where ">>,
    <<"but exclude documents where Search for documents containing any of the following: ",
      "but exclude documents containing any of: ">>,
    <<"contains \"", "the term \"">>,
    <<": contains the EXACT PHRASE", " must contain the exact phrase">>,
    <<": contains ANY of [", " contains any of [">>,
    <<": contains ALL of [", " must contain all of [">>,
    <<"; ", ", ">>,
    <<")", "">> >>

\* The text after the first k replacements have been applied in order.
RECURSIVE ApplyReplacements(_, _)
ApplyReplacements(s, k) ==
    IF k = 0 THEN s
    ELSE Replace(ApplyReplacements(s, k - 1), Replacements[k][1], Replacements[k][2])

\* EnsurePeriod appending a period whatever the text ends with.
EnsurePeriod_AlwaysAppend(s) == PyStrip(s) \o "."

\* EnsurePeriod that only trims.
EnsurePeriod_NeverAppend(s) == PyStrip(s)

\* narrative.strip(); if not narrative.endswith("."): narrative += "."
EnsurePeriod(s) ==
    LET stripped == PyStrip(s)
    IN  IF ~EndsWith(stripped, ".") THEN stripped \o "." ELSE stripped

\* CapitalizeFirst reading narrative[1] where the code reads narrative[0].
CapitalizeFirst_IndexOne(s) ==
    IF s # ""
    THEN LET first == PyIndex(s, 1)
         IN  IF first.ok THEN Ok(Upper(first.v) \o PySliceFrom(s, 1)) ELSE first
    ELSE Ok("")

\* narrative[0].upper() + narrative[1:] if narrative else ""
CapitalizeFirst(s) ==
    IF s # ""
    THEN LET first == PyIndex(s, 0)
         IN  IF first.ok THEN Ok(Upper(first.v) \o PySliceFrom(s, 1)) ELSE first
    ELSE Ok("")

\* The whole of normalize: Ok(narrative), or the error it raises.
normalize(deterministic_text_arg) ==
    CapitalizeFirst(EnsurePeriod(
        ApplyReplacements(deterministic_text_arg, Len(Replacements))))

(***************************************************************************)
(* Node trees, as the grammar parser hands them to the pipeline.  A node   *)
(* is a record of its attributes; type is the name of its class.           *)
(***************************************************************************)
Word(v) == [type |-> "Word", value |-> v]
Phrase(v) == [type |-> "Phrase", value |-> v]
SearchField(n, e) == [type |-> "SearchField", name |-> n, expr |-> e]
FieldGroup(e) == [type |-> "FieldGroup", expr |-> e]
Group(cs) == [type |-> "Group", children |-> cs]
OrOperation(cs) == [type |-> "OrOperation", children |-> cs]
AndOperation(cs) == [type |-> "AndOperation", children |-> cs]
Not(cs) == [type |-> "Not", children |-> cs]
UnknownOperation(cs) == [type |-> "UnknownOperation", children |-> cs]
\* A node of a class outside the nine variants (here a luqum Fuzzy), with
\* the text str(node) gives for it.
OtherNode(t) == [type |-> "Fuzzy", text |-> t]

HasAttr(node, attr) == attr \in DOMAIN node
GetAttr(node, attr) == IF HasAttr(node, attr) THEN PyStr(node[attr]) ELSE PyNone

\* The same tree with the children attribute luqum gives every node: none
\* for a term, the one inner expression for a SearchField or a FieldGroup.
RECURSIVE AsLuqum(_)
AsLuqum(node) ==
    IF HasAttr(node, "expr")
    THEN [node EXCEPT !.expr = AsLuqum(node.expr)]
         @@ [children |-> <<AsLuqum(node.expr)>>]
    ELSE IF HasAttr(node, "children")
         THEN [node EXCEPT !.children =
                   [i \in 1..Len(node.children) |-> AsLuqum(node.children[i])]]
         ELSE node @@ [children |-> <<>>]

(***************************************************************************)
(* LuceneQueryParser._node_to_deterministic_text                           *)
(***************************************************************************)
\* seq[-1] in place of seq[0].
ListFirst_Last(seq) ==
    IF Len(seq) > 0 THEN Ok(seq[Len(seq)]) ELSE Raise("IndexError", "list index out of range")

\* seq[0] on a Python list.
ListFirst(seq) ==
    IF Len(seq) > 0 THEN Ok(seq[1]) ELSE Raise("IndexError", "list index out of range")

RECURSIVE node_to_deterministic_text(_)
RECURSIVE RenderChildren(_)
RECURSIVE RenderFieldItems(_)

\* RenderChildren that collects the renders last child first.
RECURSIVE RenderChildren_Reversed(_)
RenderChildren_Reversed(children) ==
    IF Len(children) = 0 THEN Ok(<<>>)
    ELSE LET head == node_to_deterministic_text(children[1])
         IN  IF ~head.ok THEN head
             ELSE LET rest == RenderChildren_Reversed(Tail(children))
                  IN  IF ~rest.ok THEN rest ELSE Ok(rest.v \o <<head.v>>)

\* [render(child) for child in children]: the first error propagates.
RenderChildren(children) ==
    IF Len(children) = 0 THEN Ok(<<>>)
    ELSE LET head == node_to_deterministic_text(children[1])
         IN  IF ~head.ok THEN head
             ELSE LET rest == RenderChildren(Tail(children))
                  IN  IF ~rest.ok THEN rest ELSE Ok(<<head.v>> \o rest.v)

\* The items loop that renders every child in full.
RenderFieldItems_FullRender(children) == RenderChildren(children)

\* The items loop of a field-scoped Or/And: Phrase verbatim, Word quoted,
\* anything else rendered recursively.
RenderFieldItems(children) ==
    IF Len(children) = 0 THEN Ok(<<>>)
    ELSE LET child == children[1]
             head == IF child.type = "Phrase" THEN Ok(child.value)
                     ELSE IF child.type = "Word" THEN Ok("\"" \o child.value \o "\"")
                     ELSE node_to_deterministic_text(child)
         IN  IF ~head.ok THEN head
             ELSE LET rest == RenderFieldItems(Tail(children))
                  IN  IF ~rest.ok THEN rest ELSE Ok(<<head.v>> \o rest.v)

node_to_deterministic_text(node) ==
    IF node.type = "Phrase" THEN Ok(node.value)
    ELSE IF node.type = "Word" THEN Ok("contains \"" \o node.value \o "\"")
    ELSE IF node.type = "SearchField" THEN
        LET field_name == node.name
            field_expr == node.expr
        IN  IF field_expr.type = "FieldGroup" THEN
                LET inner == field_expr.expr
                IN  IF inner.type = "Phrase" THEN
                        Ok(field_name \o ": contains the EXACT PHRASE \""
                           \o StripChars(inner.value, {"\""}) \o "\"")
                    ELSE IF inner.type = "OrOperation" THEN
                        LET items == RenderFieldItems(inner.children)
                        IN  IF ~items.ok THEN items
                            ELSE Ok(field_name \o ": contains ANY of ["
                                    \o Join("; ", items.v) \o "]")
                    ELSE IF inner.type = "AndOperation" THEN
                        LET items == RenderFieldItems(inner.children)
                        IN  IF ~items.ok THEN items
                            ELSE Ok(field_name \o ": contains ALL of ["
                                    \o Join("; ", items.v) \o "]")
                    ELSE
                        LET inner_text == node_to_deterministic_text(inner)
                        IN  IF ~inner_text.ok THEN inner_text
                            ELSE Ok(field_name \o ": " \o inner_text.v)
            ELSE
                LET inner_text == node_to_deterministic_text(field_expr)
                IN  IF ~inner_text.ok THEN inner_text
                    ELSE Ok(field_name \o ": " \o inner_text.v)
    ELSE IF node.type = "OrOperation" THEN
        LET children_texts == RenderChildren(node.children)
        IN  IF ~children_texts.ok THEN children_texts
            ELSE Ok("Include items that match ANY of: ("
                    \o Join("; ", children_texts.v) \o ")")
    ELSE IF node.type = "AndOperation" THEN
        LET children_texts == RenderChildren(node.children)
        IN  IF ~children_texts.ok THEN children_texts
            ELSE Ok("Include items that match ALL of: ("
                    \o Join("; ", children_texts.v) \o ")")
    ELSE IF node.type = "Not" THEN
        LET child == ListFirst(node.children)
        IN  IF ~child.ok THEN child
            ELSE LET child_text == node_to_deterministic_text(child.v)
                 IN  IF ~child_text.ok THEN child_text
                     ELSE Ok("EXCLUDE items where: (" \o child_text.v \o ")")
    ELSE IF node.type = "Group" THEN
        LET inner == ListFirst(node.children)
        IN  IF ~inner.ok THEN inner ELSE node_to_deterministic_text(inner.v)
    ELSE IF node.type = "FieldGroup" THEN
        node_to_deterministic_text(node.expr)
    ELSE IF node.type = "UnknownOperation" THEN
        LET parts == RenderChildren(node.children)
        IN  IF ~parts.ok THEN parts ELSE Ok(Join(" ", parts.v))
    ELSE Ok(node.text)

(***************************************************************************)
(* LuceneQueryParser._ast_to_json                                          *)
(***************************************************************************)
\* a or b that never falls back to b.
PyOr_FirstOnly(a, b) == a

\* a or b, for a and b each a str or None.
PyOr(a, b) == IF a # PyNone /\ a.s # "" THEN a ELSE b

RECURSIVE ast_to_json(_)
RECURSIVE JsonChildren(_)

JsonChildren(children) ==
    IF Len(children) = 0 THEN <<>>
    ELSE <<ast_to_json(children[1])>> \o JsonChildren(Tail(children))

ast_to_json(node) ==
    LET json == [type |-> node.type,
                 value |-> PyOr(GetAttr(node, "value"), GetAttr(node, "name"))]
    IN  IF HasAttr(node, "children")
        THEN json @@ [children |-> JsonChildren(node.children)]
        ELSE IF HasAttr(node, "expr")
             THEN json @@ [expr |-> ast_to_json(node.expr)]
             ELSE json

(***************************************************************************)
(* QueryResult                                                             *)
(***************************************************************************)
\* QueryResult built with the query trimmed.
QueryResult_TrimmedQuery(det, narr, json, q) ==
    [deterministic_text |-> det, narrative_text |-> narr,
     ast_json |-> json, query |-> PyStrip(q)]

QueryResult(det, narr, json, q) ==
    [deterministic_text |-> det, narrative_text |-> narr,
     ast_json |-> json, query |-> q]

(***************************************************************************)
(* Inputs of the model.                                                    *)
(***************************************************************************)
\* Pieces the texts handed directly to normalize are made of.
Fragments == {
    "Include items that match ANY of: (",
    "Include items that match ALL of: (",
    "EXCLUDE items where: (",
    "(", ")", ".", " ", "b" }

RECURSIVE FragmentTexts(_)
FragmentTexts(n) ==
    IF n = 0 THEN {""}
    ELSE LET shorter == FragmentTexts(n - 1)
         IN  shorter \cup {s \o f : s \in shorter, f \in Fragments}

\* Texts with whitespace other than the blank, and with a first letter
\* outside a-z: a vertical tab, the separators U+001C and U+001F, a
\* no-break space, U+0085, accented letters, the sharp s and the micro sign.
UnicodeTexts == {
    "b", "b", "b).", "", "  ", " (b",
    "école", "à b.", "ß", "ß..", "µb", "(ñ)", "Éb" }

NormalizeInputs == FragmentTexts(MaxParts) \cup UnicodeTexts

Leaves == {Word("a"), Phrase("\"b c\""), OtherNode("a~1")}

\* A phrase whose text has parentheses of its own.
ParenPhrase == Phrase("\"(c)\"")

\* The sequences over S of length lo..hi.
SeqsOf(S, lo, hi) == UNION {[1..n -> S] : n \in lo..hi}

\* The children of the one-level boolean operations.
Terms == {Word("a"), Phrase("\"b c\"")}

\* Boolean operations over terms; a Not may have no child or several.
FlatOps ==
    {OrOperation(cs) : cs \in SeqsOf(Terms, 2, MaxChildren)}
    \cup {AndOperation(cs) : cs \in SeqsOf(Terms, 2, MaxChildren)}
    \cup {UnknownOperation(cs) : cs \in SeqsOf(Terms, 2, MaxChildren)}
    \cup {Not(cs) : cs \in SeqsOf(Terms, 0, MaxChildren)}

\* Operands of the two-level operations.
Operands == {
    Phrase("\"b c\""),
    Group(<<OrOperation(<<Phrase("\"b c\""), Word("a")>>)>>),
    Not(<<Phrase("\"b c\"")>>),
    SearchField("t", FieldGroup(AndOperation(<<Word("a"), Phrase("\"b c\"")>>))) }

NestedOps ==
    {OrOperation(<<x, y>>) : x \in Operands, y \in Operands}
    \cup {AndOperation(<<x, y>>) : x \in Operands, y \in Operands}
    \cup {UnknownOperation(<<x, y>>) : x \in Operands, y \in Operands}

\* One more level around the trees of S; a Group may have no child.
Wrappers(S) ==
    {Not(<<x>>) : x \in S} \cup {Group(<<x>>) : x \in S}
    \cup {FieldGroup(x) : x \in S} \cup {SearchField("t", x) : x \in S}
    \cup {Group(<<>>)}

RECURSIVE WrapLevel(_)
WrapLevel(k) ==
    IF k = 0 THEN Leaves \cup {ParenPhrase} \cup FlatOps
    ELSE LET inner == WrapLevel(k - 1) IN inner \cup Wrappers(inner)

Phrases == {Phrase("\"b c\""), Phrase("\"A\""), ParenPhrase}

\* The trees of a query such as ("A" OR "B") NOT "C".
OrNotTrees ==
    {UnknownOperation(<<Group(<<OrOperation(<<p, q>>)>>), Not(<<r>>)>>) :
        p \in Phrases, q \in Phrases, r \in Phrases}

\* Field-scoped boolean groups whose items are not all terms.
FieldItems == Operands \cup {Word("a")}

FieldScopedOps ==
    {SearchField("t", FieldGroup(OrOperation(<<x, y>>))) : x \in FieldItems, y \in FieldItems}
    \cup {SearchField("t", FieldGroup(AndOperation(<<x, y>>))) : x \in FieldItems, y \in FieldItems}

\* Trees with the attributes of luqum's node classes.
LuqumTrees == {AsLuqum(t) : t \in {
    Word("a"),
    SearchField("t", Phrase("\"b c\"")),
    SearchField("t", FieldGroup(OrOperation(<<Phrase("\"b c\""), Word("a")>>))),
    UnknownOperation(<<Group(<<OrOperation(<<Phrase("\"b c\""), Phrase("\"A\"")>>)>>),
                       Not(<<Phrase("\"b c\"")>>)>>) }}

\* The trees of a query such as a NOT (b OR c): a term, then a Not over a
\* boolean operation that may be inside a Group.
TermNotTrees ==
    {UnknownOperation(<<x, Not(<<op>>)>>) :
        x \in Terms,
        op \in {OrOperation(<<Word("a"), Phrase("\"b c\"")>>),
                AndOperation(<<Word("a"), Phrase("\"b c\"")>>),
                Group(<<OrOperation(<<Phrase("\"b c\""), Word("a")>>)>>),
                Group(<<AndOperation(<<Phrase("\"b c\""), Word("a")>>)>>)}}

\* A phrase that ends with an escaped quote: "a\"".
EscapedQuotePhrase == Phrase("\"a\\\"\"")

\* The trees of the queries "a\"", t:"a\"", t:("a\"") and "a\"" OR a.
EscapedQuoteTrees == {
    EscapedQuotePhrase,
    SearchField("t", EscapedQuotePhrase),
    SearchField("t", FieldGroup(EscapedQuotePhrase)),
    OrOperation(<<EscapedQuotePhrase, Word("a")>>) }

\* Trees whose field names and terms have letters outside a-z.
UnicodeTrees == {
    SearchField("état", Word("a")),
    SearchField("ß", Phrase("\"b c\"")),
    SearchField("état", FieldGroup(OrOperation(<<Phrase("\"b c\""), Phrase("\"é\"")>>))),
    OtherNode("é~1"),
    OtherNode("µ") }

\* The trees the grammar parser may return.
Trees == WrapLevel(MaxWrap) \cup NestedOps \cup OrNotTrees \cup FieldScopedOps
         \cup LuqumTrees \cup TermNotTrees \cup EscapedQuoteTrees
         \cup UnicodeTrees

Queries == {"", " \t", " ", " a OR b ", "((unclosed"}

GrammarErrors == {"unexpected end of expression", "Illegal character"}

\* What the grammar parser may do with a query: reject it with a message or
\* return a tree.  It rejects the unbalanced query of test_error_handling;
\* for a blank query the one-level trees stand for whatever it returns.
GrammarOutcomes(q) ==
    {Raise("ParseSyntaxError", m) : m \in GrammarErrors}
    \cup (IF q = "((unclosed" THEN {}
          ELSE IF PyStrip(q) = "" THEN {Ok(t) : t \in WrapLevel(0)}
          ELSE {Ok(t) : t \in Trees})

(***************************************************************************)
(* The state machine: one call of normalize or of parse.                   *)
(***************************************************************************)
Init ==
    /\ pc = "idle"
    /\ n_in = PyNone
    /\ n_out = PyNone
    /\ query = PyNone
    /\ grammar = PyNone
    /\ ast_tree = PyNone
    /\ deterministic_text = PyNone
    /\ narrative_text = PyNone
    /\ ast_json = PyNone
    /\ result = PyNone
    /\ raised = NoError
    /\ held = PyNone
    /\ as_dict = PyNone
    /\ response = PyNone
    /\ file = PyNone

\* TextNormalizer.normalize(s), called directly.
NormalizeCall(s) ==
    /\ pc = "idle"
    /\ n_in' = PyStr(s)
    /\ LET r == normalize(s)
       IN  IF r.ok
           THEN n_out' = PyStr(r.v) /\ raised' = NoError /\ pc' = "normalized"
           ELSE n_out' = PyNone /\ raised' = r.v /\ pc' = "raised"
    /\ query' = PyNone
    /\ grammar' = PyNone
    /\ ast_tree' = PyNone
    /\ deterministic_text' = PyNone
    /\ narrative_text' = PyNone
    /\ ast_json' = PyNone
    /\ result' = PyNone
    /\ UNCHANGED <<file, held, as_dict, response>>

\* LuceneQueryParser.parse(q) is entered.
ParseCall(q) ==
    /\ pc = "idle"
    /\ pc' = "grammar"
    /\ query' = PyStr(q)
    /\ n_in' = PyNone
    /\ n_out' = PyNone
    /\ grammar' = PyNone
    /\ ast_tree' = PyNone
    /\ deterministic_text' = PyNone
    /\ narrative_text' = PyNone
    /\ ast_json' = PyNone
    /\ result' = PyNone
    /\ UNCHANGED <<file, held, as_dict, response>>
    /\ raised' = NoError

\* SyntaxErrorMessage that drops the grammar parser's message.
SyntaxErrorMessage_Generic(e) == "Invalid Lucene query"

\* The message of the ValueError raised for a grammar error e.
SyntaxErrorMessage(e) == "Invalid Lucene query syntax: " \o e

\* try: ast_tree = parser.parse(query) / except Exception: raise ValueError
GrammarParse ==
    /\ pc = "grammar"
    /\ \E outcome \in GrammarOutcomes(query.s) :
        /\ grammar' = outcome
        /\ IF outcome.ok
           THEN /\ ast_tree' = outcome.v
                /\ pc' = "render"
                /\ raised' = raised
           ELSE /\ ast_tree' = ast_tree
                /\ pc' = "raised"
                /\ raised' = [kind |-> "ValueError",
                              msg |-> SyntaxErrorMessage(outcome.v.msg)]
    /\ UNCHANGED <<file, held, as_dict, response, n_in, n_out, query, deterministic_text, narrative_text,
                   ast_json, result>>

\* deterministic_text = self._node_to_deterministic_text(ast_tree)
Render ==
    /\ pc = "render"
    /\ LET r == node_to_deterministic_text(ast_tree)
       IN  IF r.ok
           THEN deterministic_text' = PyStr(r.v) /\ pc' = "normalize" /\ raised' = raised
           ELSE deterministic_text' = deterministic_text /\ pc' = "raised" /\ raised' = r.v
    /\ UNCHANGED <<file, held, as_dict, response, n_in, n_out, query, grammar, ast_tree, narrative_text,
                   ast_json, result>>

\* narrative_text = self.normalizer.normalize(deterministic_text)
Normalize ==
    /\ pc = "normalize"
    /\ LET r == normalize(deterministic_text.s)
       IN  IF r.ok
           THEN narrative_text' = PyStr(r.v) /\ pc' = "serialize" /\ raised' = raised
           ELSE narrative_text' = narrative_text /\ pc' = "raised" /\ raised' = r.v
    /\ UNCHANGED <<file, held, as_dict, response, n_in, n_out, query, grammar, ast_tree, deterministic_text,
                   ast_json, result>>

\* ast_json = self._ast_to_json(ast_tree)
Serialize ==
    /\ pc = "serialize"
    /\ ast_json' = ast_to_json(ast_tree)
    /\ pc' = "return"
    /\ UNCHANGED <<file, held, as_dict, response, n_in, n_out, query, grammar, ast_tree, deterministic_text,
                   narrative_text, result, raised>>

\* return QueryResult(...)
Return ==
    /\ pc = "return"
    /\ result' = QueryResult(deterministic_text.s, narrative_text.s, ast_json, query.s)
    /\ pc' = "done"
    /\ UNCHANGED <<file, held, as_dict, response, n_in, n_out, query, grammar, ast_tree, deterministic_text,
                   narrative_text, ast_json, raised>>

Next ==
    \/ \E s \in NormalizeInputs : NormalizeCall(s)
    \/ \E q \in Queries : ParseCall(q)
    \/ GrammarParse
    \/ Render
    \/ Normalize
    \/ Serialize
    \/ Return

Spec == Init /\ [][Next]_vars

(***************************************************************************)
(* Concurrent calls of parse on one LuceneQueryParser instance.  Each call  *)
(* runs in its own frame: every variable holds one value per call.  The    *)
(* instance has one attribute, self.normalizer, which parse never assigns. *)
(***************************************************************************)
Calls == 1..MaxCalls

ConcQueries == {"", " a OR b ", "((unclosed"}

ConcTrees == {
    Word("a"),
    Not(<<>>),
    UnknownOperation(<<Group(<<OrOperation(<<Phrase("\"A\""), Phrase("\"b c\"")>>)>>),
                       Not(<<ParenPhrase>>)>>) }

\* The grammar parser, taken to be safe for concurrent use: what it does with
\* a query does not depend on the other calls.
ConcOutcomes(q) ==
    {o \in GrammarOutcomes(q) :
        IF o.ok THEN o.v \in ConcTrees ELSE o.v.msg = "Illegal character"}

\* A local variable of parse read as if it were one slot shared by all calls.
Frame_Shared(var, c) == var[1]

\* The value of a local variable of parse in the frame of call c.
Frame(var, c) == var[c]

ConcInit ==
    /\ pc = [c \in Calls |-> "idle"]
    /\ n_in = PyNone
    /\ n_out = PyNone
    /\ query = [c \in Calls |-> PyNone]
    /\ grammar = [c \in Calls |-> PyNone]
    /\ ast_tree = [c \in Calls |-> PyNone]
    /\ deterministic_text = [c \in Calls |-> PyNone]
    /\ narrative_text = [c \in Calls |-> PyNone]
    /\ ast_json = [c \in Calls |-> PyNone]
    /\ result = [c \in Calls |-> PyNone]
    /\ raised = [c \in Calls |-> NoError]
    /\ held = PyNone
    /\ as_dict = PyNone
    /\ response = PyNone
    /\ file = PyNone

\* Call c enters parse(q).
ConcParseCall(c, q) ==
    /\ Frame(pc, c) = "idle"
    /\ pc' = [pc EXCEPT ![c] = "grammar"]
    /\ query' = [query EXCEPT ![c] = PyStr(q)]
    /\ UNCHANGED <<file, held, as_dict, response, n_in, n_out, grammar, ast_tree, deterministic_text,
                   narrative_text, ast_json, result, raised>>

\* Call c: try: ast_tree = parser.parse(query) / except: raise ValueError
ConcGrammarParse(c) ==
    /\ Frame(pc, c) = "grammar"
    /\ \E outcome \in ConcOutcomes(Frame(query, c).s) :
        /\ grammar' = [grammar EXCEPT ![c] = outcome]
        /\ IF outcome.ok
           THEN /\ ast_tree' = [ast_tree EXCEPT ![c] = outcome.v]
                /\ pc' = [pc EXCEPT ![c] = "render"]
                /\ raised' = raised
           ELSE /\ ast_tree' = ast_tree
                /\ pc' = [pc EXCEPT ![c] = "raised"]
                /\ raised' = [raised EXCEPT ![c] =
                                 [kind |-> "ValueError",
                                  msg |-> SyntaxErrorMessage(outcome.v.msg)]]
    /\ UNCHANGED <<file, held, as_dict, response, n_in, n_out, query, deterministic_text, narrative_text,
                   ast_json, result>>

\* Call c: deterministic_text = self._node_to_deterministic_text(ast_tree)
ConcRender(c) ==
    /\ Frame(pc, c) = "render"
    /\ LET r == node_to_deterministic_text(Frame(ast_tree, c))
       IN  IF r.ok
           THEN /\ deterministic_text' = [deterministic_text EXCEPT ![c] = PyStr(r.v)]
                /\ pc' = [pc EXCEPT ![c] = "normalize"]
                /\ raised' = raised
           ELSE /\ deterministic_text' = deterministic_text
                /\ pc' = [pc EXCEPT ![c] = "raised"]
                /\ raised' = [raised EXCEPT ![c] = r.v]
    /\ UNCHANGED <<file, held, as_dict, response, n_in, n_out, query, grammar, ast_tree, narrative_text,
                   ast_json, result>>

\* Call c: narrative_text = self.normalizer.normalize(deterministic_text)
ConcNormalize(c) ==
    /\ Frame(pc, c) = "normalize"
    /\ LET r == normalize(Frame(deterministic_text, c).s)
       IN  IF r.ok
           THEN /\ narrative_text' = [narrative_text EXCEPT ![c] = PyStr(r.v)]
                /\ pc' = [pc EXCEPT ![c] = "serialize"]
                /\ raised' = raised
           ELSE /\ narrative_text' = narrative_text
                /\ pc' = [pc EXCEPT ![c] = "raised"]
                /\ raised' = [raised EXCEPT ![c] = r.v]
    /\ UNCHANGED <<file, held, as_dict, response, n_in, n_out, query, grammar, ast_tree, deterministic_text,
                   ast_json, result>>

\* Call c: ast_json = self._ast_to_json(ast_tree)
ConcSerialize(c) ==
    /\ Frame(pc, c) = "serialize"
    /\ ast_json' = [ast_json EXCEPT ![c] = ast_to_json(Frame(ast_tree, c))]
    /\ pc' = [pc EXCEPT ![c] = "return"]
    /\ UNCHANGED <<file, held, as_dict, response, n_in, n_out, query, grammar, ast_tree, deterministic_text,
                   narrative_text, result, raised>>

\* Call c: return QueryResult(...)
ConcReturn(c) ==
    /\ Frame(pc, c) = "return"
    /\ result' = [result EXCEPT ![c] =
                     QueryResult(Frame(deterministic_text, c).s,
                                 Frame(narrative_text, c).s,
                                 Frame(ast_json, c), Frame(query, c).s)]
    /\ pc' = [pc EXCEPT ![c] = "done"]
    /\ UNCHANGED <<file, held, as_dict, response, n_in, n_out, query, grammar, ast_tree, deterministic_text,
                   narrative_text, ast_json, raised>>

ConcNext ==
    \E c \in Calls :
        \/ \E q \in ConcQueries : ConcParseCall(c, q)
        \/ ConcGrammarParse(c)
        \/ ConcRender(c)
        \/ ConcNormalize(c)
        \/ ConcSerialize(c)
        \/ ConcReturn(c)

SpecConcurrent == ConcInit /\ [][ConcNext]_vars

(***************************************************************************)
(* A caller of the library: it keeps the first QueryResult parse returns,  *)
(* goes on calling parse, takes dictionaries from to_dict and changes      *)
(* them, and assigns to the fields of the result it keeps.  QueryResult is *)
(* a plain dataclass: assigning to a field of an instance stores the value.*)
(***************************************************************************)
FieldNames == {"deterministic_text", "narrative_text", "ast_json", "query"}

\* What parse(q) returns or raises when it runs alone and the grammar parser
\* answers with outcome.
Alone(q, outcome) ==
    IF ~outcome.ok
    THEN [result |-> PyNone,
          raised |-> [kind |-> "ValueError", msg |-> SyntaxErrorMessage(outcome.v.msg)]]
    ELSE LET det == node_to_deterministic_text(outcome.v)
         IN  IF ~det.ok THEN [result |-> PyNone, raised |-> det.v]
             ELSE LET narr == normalize(det.v)
                  IN  IF ~narr.ok THEN [result |-> PyNone, raised |-> narr.v]
                      ELSE [result |-> QueryResult(det.v, narr.v,
                                                   ast_to_json(outcome.v), q),
                            raised |-> NoError]

\* QueryResult.to_dict: asdict builds a new dictionary, with copies of the
\* dictionaries and lists inside ast_json.
to_dict(self) ==
    [deterministic_text |-> self.deterministic_text,
     narrative_text |-> self.narrative_text,
     ast_json |-> self.ast_json,
     query |-> self.query]

\* The value a caller stores under a key: another text, or the ast_json with
\* another type at its root.
CallerValue(obj, key) ==
    IF key = "ast_json" THEN [obj.ast_json EXCEPT !.type = "Changed"] ELSE "changed"

CallerInit == Init

\* parse(q) from entry to return; the caller keeps the first result and
\* result is the latest one returned.
CallerParse(q) ==
    /\ \E outcome \in ConcOutcomes(q) :
        LET r == Alone(q, outcome)
        IN  /\ query' = PyStr(q)
            /\ grammar' = outcome
            /\ raised' = r.raised
            /\ IF r.result # PyNone /\ held = PyNone
               THEN held' = r.result /\ result' = result
               ELSE held' = held /\ result' = r.result
    /\ UNCHANGED <<file, pc, n_in, n_out, ast_tree, deterministic_text, narrative_text,
                   ast_json, as_dict, response>>

\* d = held.to_dict()
ToDict ==
    /\ held # PyNone
    /\ as_dict' = to_dict(held)
    /\ UNCHANGED <<file, pc, n_in, n_out, query, grammar, ast_tree, deterministic_text,
                   narrative_text, ast_json, result, raised, held, response>>

\* d[key] = value, or d["ast_json"]["type"] = value
ChangeDict(key) ==
    /\ as_dict # PyNone
    /\ as_dict' = [as_dict EXCEPT ![key] = CallerValue(as_dict, key)]
    /\ UNCHANGED <<file, pc, n_in, n_out, query, grammar, ast_tree, deterministic_text,
                   narrative_text, ast_json, result, raised, held, response>>

\* held.<field> = value: the dataclass is not frozen, the assignment stores.
SetField(field) ==
    /\ held # PyNone
    /\ held' = [held EXCEPT ![field] = CallerValue(held, field)]
    /\ UNCHANGED <<file, pc, n_in, n_out, query, grammar, ast_tree, deterministic_text,
                   narrative_text, ast_json, result, raised, as_dict, response>>

CallerNext ==
    \/ \E q \in ConcQueries : CallerParse(q)
    \/ ToDict
    \/ \E key \in FieldNames : ChangeDict(key)
    \/ \E field \in FieldNames : SetField(field)

SpecCaller == CallerInit /\ [][CallerNext]_vars

(***************************************************************************)
(* The HTTP layer: POST /api/v1/parse.  A request body is validated into a *)
(* QueryRequest, the route calls QueryController.parse_query, which calls  *)
(* QueryParserService.parse_query, which calls LuceneQueryParser.parse;    *)
(* raised holds the exception on its way up.                               *)
(***************************************************************************)
\* The characters U+0001..U+005F and U+0061..U+00FF, in code point order.
Latin1Low ==
    "\t\n\f\r" \o
    " !\"#$%&'()*+,-./0123456789:;<=>?" \o
    "@ABCDEFGHIJKLMNOPQRSTUVWXYZ[\\]^_"

Latin1High ==
    "abcdefghijklmnopqrstuvwxyz{|}~" \o
    " " \o
    "¡¢£¤¥¦§¨©ª«¬­®¯°±²³´µ¶·¸¹º»¼½¾¿À" \o
    "ÁÂÃÄÅÆÇÈÉÊËÌÍÎÏÐÑÒÓÔÕÖ×ØÙÚÛÜÝÞßà" \o
    "áâãäåæçèéêëìíîïðñòóôõö÷øùúûüýþÿ"

\* chr(cp) for a code point up to U+00FF.  The null character, the grave
\* accent U+0060 and the code points above U+00FF cannot be written in a
\* string of this module: the model has no value for them.
Chr(cp) ==
    IF cp \in 1..95 THEN CharAt(Latin1Low, cp)
    ELSE IF cp \in 97..255 THEN CharAt(Latin1High, cp - 96)
    ELSE CHOOSE c \in {} : TRUE

Digits == "0123456789"
HexDigits == "0123456789abcdef"

\* "%d" % n
RECURSIVE Decimal(_)
Decimal(n) ==
    IF n < 10 THEN CharAt(Digits, n + 1)
    ELSE Decimal(n \div 10) \o CharAt(Digits, (n % 10) + 1)

\* "%02x" % b
Hex2(b) == CharAt(HexDigits, (b \div 16) + 1) \o CharAt(HexDigits, (b % 16) + 1)

\* The number of continuation bytes after the lead byte b of a UTF-8
\* character; -1 when b cannot start a character.
ContinuationCount(b) ==
    IF b < 128 THEN 0
    ELSE IF b \in 194..223 THEN 1
    ELSE IF b \in 224..239 THEN 2
    ELSE IF b \in 240..244 THEN 3
    ELSE -1

\* The bytes allowed right after the lead byte b: no overlong form, no
\* surrogate, nothing above U+10FFFF.
SecondByteRange(b) ==
    IF b = 224 THEN 160..191
    ELSE IF b = 237 THEN 128..159
    ELSE IF b = 240 THEN 144..191
    ELSE IF b = 244 THEN 128..143
    ELSE 128..191

\* The bits of the code point held by a lead byte with k continuation bytes.
LeadBits(b, k) ==
    IF k = 0 THEN b ELSE IF k = 1 THEN b % 32 ELSE IF k = 2 THEN b % 16 ELSE b % 8

\* str(e) of the UnicodeDecodeError for bytes start..end-1 (0-based).
DecodeErrorMessage(bs, start, end, reason) ==
    "'utf-8' codec can't decode "
    \o (IF end - start = 1
        THEN "byte 0x" \o Hex2(bs[start + 1]) \o " in position " \o Decimal(start)
        ELSE "bytes in position " \o Decimal(start) \o "-" \o Decimal(end - 1))
    \o ": " \o reason

\* The continuation bytes j..k of the character whose lead byte is bs[i]:
\* the code point, or the error at the first byte that is missing or wrong.
RECURSIVE DecodeChar(_, _, _, _, _)
DecodeChar(bs, i, j, k, cp) ==
    IF j > k THEN Ok(cp)
    ELSE IF i + j > Len(bs)
    THEN Raise("UnicodeDecodeError",
               DecodeErrorMessage(bs, i - 1, i - 1 + j, "unexpected end of data"))
    ELSE IF bs[i + j] \notin (IF j = 1 THEN SecondByteRange(bs[i]) ELSE 128..191)
    THEN Raise("UnicodeDecodeError",
               DecodeErrorMessage(bs, i - 1, i - 1 + j, "invalid continuation byte"))
    ELSE DecodeChar(bs, i, j + 1, k, cp * 64 + (bs[i + j] % 64))

RECURSIVE Utf8DecodeFrom(_, _, _)
Utf8DecodeFrom(bs, i, text) ==
    IF i > Len(bs) THEN Ok(text)
    ELSE LET k == ContinuationCount(bs[i])
         IN  IF k < 0
             THEN Raise("UnicodeDecodeError",
                        DecodeErrorMessage(bs, i - 1, i, "invalid start byte"))
             ELSE LET c == DecodeChar(bs, i, 1, k, LeadBits(bs[i], k))
                  IN  IF c.ok THEN Utf8DecodeFrom(bs, i + k + 1, text \o Chr(c.v))
                      ELSE c

\* content.decode('utf-8'): the text, or the UnicodeDecodeError it raises.
Utf8Decode(bs) == Utf8DecodeFrom(bs, 1, "")

\* The uploaded files: empty, blank, blank with a no-break space, a vertical
\* tab and U+0085, not UTF-8 (a wrong start byte, a cut-off character, a
\* wrong continuation byte, a wrong byte at position 10), and the queries
\* " a OR b\n", "((unclosed" and "\xe9tat:a".
FileContents == {
    <<>>,
    <<32, 9>>,
    <<194, 160, 11, 194, 133>>,
    <<255>>,
    <<194>>,
    <<226, 128, 65>>,
    <<40, 40, 117, 110, 99, 108, 111, 115, 101, 100, 255>>,
    <<32, 97, 32, 79, 82, 32, 98, 10>>,
    <<40, 40, 117, 110, 99, 108, 111, 115, 101, 100>>,
    <<195, 169, 116, 97, 116, 58, 97>> }

HttpQueries == Queries

\* The answers of the grammar parser in this layer: rejections, the
\* one-level trees and the trees of ("A" OR "B") NOT "C".
HttpOutcomes(q) ==
    {o \in GrammarOutcomes(q) : o.ok => o.v \in WrapLevel(0) \cup OrNotTrees}

QueryResponse(res) ==
    [deterministic_text |-> res.deterministic_text,
     narrative_text |-> res.narrative_text,
     ast_json |-> res.ast_json]

HttpResponse(status, detail, body) ==
    [status |-> status, detail |-> detail, body |-> body]

\* QueryParserService.parse_query: except ValueError: raise /
\* except Exception as e: raise ValueError("Invalid Lucene query syntax: ...")
ServiceError(e) ==
    IF e.kind = "ValueError" THEN e
    ELSE [kind |-> "ValueError", msg |-> "Invalid Lucene query syntax: " \o e.msg]

\* QueryController.parse_query: except ValueError: raise /
\* except Exception as e: raise ValueError("Failed to process query: ...")
ControllerError(e) ==
    IF e.kind = "ValueError" THEN e
    ELSE [kind |-> "ValueError", msg |-> "Failed to process query: " \o e.msg]

\* The route answering every exception with 500.
RouteError_AlwaysInternal(e) ==
    HttpResponse(500, PyStr("Internal server error"), PyNone)

\* The route: except ValueError: 400 with str(e) / except Exception: 500.
RouteError(e) ==
    IF e.kind = "ValueError" THEN HttpResponse(400, PyStr(e.msg), PyNone)
    ELSE HttpResponse(500, PyStr("Internal server error"), PyNone)

\* The file route: except UnicodeDecodeError: 400 with a fixed detail /
\* except ValueError: 400 with str(e) / except Exception: 500.
FileRouteError(e) ==
    IF e.kind = "UnicodeDecodeError"
    THEN HttpResponse(400, PyStr("File must be UTF-8 encoded text"), PyNone)
    ELSE IF e.kind = "ValueError" THEN HttpResponse(400, PyStr(e.msg), PyNone)
    ELSE HttpResponse(500, PyStr("Internal server error"), PyNone)

HttpInit == Init

\* A request body arrives.  QueryRequest rejects an empty or blank query and
\* the framework answers 422 without calling the route; otherwise the route,
\* the controller and the service are entered with the trimmed query.
HttpReceive(q) ==
    /\ pc = "idle"
    /\ IF PyStrip(q) = ""
       THEN /\ pc' = "responded"
            /\ response' = HttpResponse(422, PyNone, PyNone)
            /\ query' = query
       ELSE /\ pc' = "library"
            /\ response' = response
            /\ query' = PyStr(PyStrip(q))
    /\ UNCHANGED <<file, n_in, n_out, grammar, ast_tree, deterministic_text,
                   narrative_text, ast_json, result, raised, held, as_dict>>

\* result = self.parser.parse(query), from entry to return or raise.
HttpLibraryParse ==
    /\ pc = "library"
    /\ \E outcome \in HttpOutcomes(query.s) :
        LET r == Alone(query.s, outcome)
        IN  /\ grammar' = outcome
            /\ result' = r.result
            /\ raised' = r.raised
    /\ pc' = "service"
    /\ UNCHANGED <<file, n_in, n_out, query, ast_tree, deterministic_text,
                   narrative_text, ast_json, held, as_dict, response>>

\* QueryParserService.parse_query returns the result or raises.
HttpService ==
    /\ pc = "service"
    /\ raised' = IF raised = NoError THEN raised ELSE ServiceError(raised)
    /\ pc' = "controller"
    /\ UNCHANGED <<file, n_in, n_out, query, grammar, ast_tree, deterministic_text,
                   narrative_text, ast_json, result, held, as_dict, response>>

\* QueryController.parse_query returns a QueryResponse or raises, to the
\* route that called it.
HttpController ==
    /\ pc = "controller"
    /\ IF raised = NoError
       THEN /\ response' = HttpResponse(200, PyNone, QueryResponse(result))
            /\ raised' = raised
       ELSE /\ response' = response
            /\ raised' = ControllerError(raised)
    /\ pc' = IF file = PyNone THEN "route" ELSE "file_route"
    /\ UNCHANGED <<file, n_in, n_out, query, grammar, ast_tree, deterministic_text,
                   narrative_text, ast_json, result, held, as_dict>>

\* The route returns the controller's response or raises HTTPException.
HttpRoute ==
    /\ pc = "route"
    /\ response' = IF raised = NoError THEN response ELSE RouteError(raised)
    /\ pc' = "responded"
    /\ UNCHANGED <<file, n_in, n_out, query, grammar, ast_tree, deterministic_text,
                   narrative_text, ast_json, result, raised, held, as_dict>>

\* POST /api/v1/parse-file: parse_query_from_file is entered with the
\* uploaded file and waits at await file.read().
HttpReceiveFile(bytes) ==
    /\ pc = "idle"
    /\ file' = PyBytes(bytes)
    /\ pc' = "read"
    /\ UNCHANGED <<n_in, n_out, query, grammar, ast_tree, deterministic_text,
                   narrative_text, ast_json, result, raised, held, as_dict,
                   response>>

\* file.read() returns the content: it is decoded and trimmed; a blank text
\* raises ValueError, any other becomes the query of a QueryRequest (whose
\* validator returns v.strip()) and the controller is called.
HttpFileRead ==
    /\ pc = "read"
    /\ LET content == file.b
           decoded == Utf8Decode(content)
       IN  IF ~decoded.ok
           THEN /\ raised' = decoded.v
                /\ query' = query
                /\ pc' = "file_route"
           ELSE LET query_text == PyStrip(decoded.v)
                IN  IF query_text = ""
                    THEN /\ raised' = [kind |-> "ValueError",
                                       msg |-> "File is empty or contains only whitespace"]
                         /\ query' = query
                         /\ pc' = "file_route"
                    ELSE /\ raised' = raised
                         /\ query' = PyStr(PyStrip(query_text))
                         /\ pc' = "library"
    /\ UNCHANGED <<file, n_in, n_out, grammar, ast_tree, deterministic_text,
                   narrative_text, ast_json, result, held, as_dict, response>>

\* The file route returns the controller's response or raises HTTPException.
HttpFileRoute ==
    /\ pc = "file_route"
    /\ response' = IF raised = NoError THEN response ELSE FileRouteError(raised)
    /\ pc' = "responded"
    /\ UNCHANGED <<file, n_in, n_out, query, grammar, ast_tree, deterministic_text,
                   narrative_text, ast_json, result, raised, held, as_dict>>

HttpNext ==
    \/ \E q \in HttpQueries : HttpReceive(q)
    \/ \E bytes \in FileContents : HttpReceiveFile(bytes)
    \/ HttpFileRead
    \/ HttpFileRoute
    \/ HttpLibraryParse
    \/ HttpService
    \/ HttpController
    \/ HttpRoute

SpecHttp == HttpInit /\ [][HttpNext]_vars

(***************************************************************************)
(* Properties.                                                             *)
(***************************************************************************)
OpenParenTemplates == {Replacements[1][1], Replacements[2][1], Replacements[3][1]}

\* s has a "(" that is not the last character of one of the three templates.
HasBareOpenParen(s) ==
    \E i \in 1..Len(s) :
        /\ CharAt(s, i) = "("
        /\ \A t \in OpenParenTemplates : ~EndsWith(SubSeq(s, 1, i), t)

\* C1: normalize applied to the empty string returns the empty string.
C1_EmptyNormalizesToEmpty ==
    (pc = "normalized" /\ n_in = PyStr("")) => n_out = PyStr("")

\* C2 as stated: for every input, also a rendered text, the result of
\* normalize contains neither "(" nor ")".
C2_NoParenthesis ==
    /\ pc = "normalized" => ~Contains(n_out.s, "(") /\ ~Contains(n_out.s, ")")
    /\ narrative_text # PyNone =>
          ~Contains(narrative_text.s, "(") /\ ~Contains(narrative_text.s, ")")

\* C2 amended: the result of normalize never contains ")", and it contains
\* "(" exactly when the input has a "(" that does not end one of the three
\* templates replaced by steps 1 to 3.
C2_NoCloseParenAndOnlyBareOpenParens ==
    /\ pc = "normalized" =>
          /\ ~Contains(n_out.s, ")")
          /\ Contains(n_out.s, "(") <=> HasBareOpenParen(n_in.s)
    /\ narrative_text # PyNone =>
          /\ ~Contains(narrative_text.s, ")")
          /\ Contains(narrative_text.s, "(") <=> HasBareOpenParen(deterministic_text.s)

C2_Witness ==
    /\ pc = "normalized"
    /\ n_in = PyStr("Include items that match ANY of: (()")
    /\ n_out = PyStr("Search for documents containing any of the following: (.")

\* C3 as stated: for every non-empty input the result of normalize ends
\* with exactly one ".", never with two or more.
C3_ExactlyOnePeriod ==
    (pc = "normalized" /\ n_in.s # "") =>
        EndsWith(n_out.s, ".") /\ ~EndsWith(n_out.s, "..")

\* C3 amended: the result of normalize ends with "."; it ends with two or
\* more periods exactly when the input, with its ")" characters deleted and
\* its surrounding whitespace trimmed, already ends with two or more.
C3_PeriodKeptOrAppendedOnce ==
    pc = "normalized" =>
        /\ EndsWith(n_out.s, ".")
        /\ EndsWith(n_out.s, "..") <=> EndsWith(PyStrip(Replace(n_in.s, ")", "")), "..")

C3_Witness ==
    pc = "normalized" /\ n_in = PyStr("b..") /\ n_out = PyStr("B..")

\* C4: normalize is total: every call returns a string and raises nothing,
\* also for the empty and for a whitespace-only string, and the normalize
\* step of parse never raises.
C4_NormalizeTotal ==
    /\ n_in # PyNone => pc = "normalized" /\ raised = NoError /\ n_out # PyNone
    /\ raised.msg # "string index out of range"
    /\ pc \in {"serialize", "return", "done"} => narrative_text # PyNone

C4_Witness ==
    pc = "normalized" /\ n_in = PyStr(" ") /\ n_out = PyStr(".") /\ raised = NoError

\* C5: the narrative normalize returns, and the narrative_text of every
\* QueryResult parse returns, is non-empty and ends with ".".
C5_NarrativeNonEmptyWithPeriod ==
    /\ pc = "normalized" => Len(n_out.s) > 0 /\ EndsWith(n_out.s, ".")
    /\ pc = "done" =>
          Len(result.narrative_text) > 0 /\ EndsWith(result.narrative_text, ".")

C5_Witness ==
    /\ pc = "done"
    /\ grammar.v = OrOperation(<<Phrase("\"b c\""), Word("a")>>)
    /\ result.narrative_text =
          "Search for documents containing any of the following: \"b c\", the term \"a\"."

\* C6: when the grammar parser rejects the query, parse raises a ValueError
\* whose message contains "syntax" and the grammar parser's message, and no
\* tree, text, JSON or QueryResult has been produced.
C6_GrammarRejectionIsSyntaxError ==
    (grammar # PyNone /\ ~grammar.ok) =>
        /\ pc = "raised"
        /\ raised.kind = "ValueError"
        /\ Contains(raised.msg, "syntax")
        /\ Contains(raised.msg, grammar.v.msg)
        /\ ast_tree = PyNone
        /\ deterministic_text = PyNone
        /\ narrative_text = PyNone
        /\ ast_json = PyNone
        /\ result = PyNone

C6_Witness ==
    /\ pc = "raised"
    /\ query = PyStr("((unclosed")
    /\ raised = [kind |-> "ValueError",
                 msg |-> "Invalid Lucene query syntax: unexpected end of expression"]

\* C7: every error parse raises to its caller is a ValueError, also when
\* rendering fails on a tree the grammar parser accepted.
C7_OnlyValueErrorRaised ==
    pc = "raised" => raised.kind = "ValueError"

\* C8: parse of an empty or whitespace-only query returns no QueryResult,
\* whatever the grammar parser does with it.
C8_BlankQueryNoResult ==
    (query # PyNone /\ PyStrip(query.s) = "") => result = PyNone

\* C9: the QueryResult parse returns holds the query unchanged, the render
\* of the tree the grammar parser returned, the normalize of that render and
\* the serialization of the same tree.
C9_ResultConsistent ==
    pc = "done" =>
        /\ result.query = query.s
        /\ Ok(result.deterministic_text) = node_to_deterministic_text(grammar.v)
        /\ Ok(result.narrative_text) = normalize(result.deterministic_text)
        /\ result.ast_json = ast_to_json(grammar.v)

C9_Witness ==
    /\ pc = "done"
    /\ query = PyStr(" a OR b ")
    /\ grammar.v = SearchField("t", FieldGroup(Phrase("\"b c\"")))
    /\ result = [query |-> " a OR b ",
                 deterministic_text |-> "t: contains the EXACT PHRASE \"b c\"",
                 narrative_text |-> "T must contain the exact phrase \"b c\".",
                 ast_json |-> [type |-> "SearchField", value |-> PyStr("t"),
                               expr |-> [type |-> "FieldGroup", value |-> PyNone,
                                         expr |-> [type |-> "Phrase",
                                                   value |-> PyStr("\"b c\"")]]]]

IsPhraseField(node) ==
    /\ node.type = "SearchField"
    /\ \/ node.expr.type = "Phrase"
       \/ node.expr.type = "FieldGroup" /\ node.expr.expr.type = "Phrase"

PhraseOfField(node) ==
    IF node.expr.type = "Phrase" THEN node.expr ELSE node.expr.expr

\* C11: a SearchField over a Phrase, directly or through a FieldGroup, is
\* rendered <field>: contains the EXACT PHRASE "<phrase without its quotes>".
C11_ExactPhraseWording ==
    (pc = "done" /\ IsPhraseField(grammar.v)) =>
        result.deterministic_text =
            grammar.v.name \o ": contains the EXACT PHRASE \""
            \o StripChars(PhraseOfField(grammar.v).value, {"\""}) \o "\""

ChildrenTypes == {"OrOperation", "AndOperation", "Not", "UnknownOperation", "Group"}
ExprTypes == {"SearchField", "FieldGroup"}

\* The serialized node json has the keys the claim gives the variant of node.
RECURSIVE HasClaimedShape(_, _)
HasClaimedShape(json, node) ==
    /\ {"type", "value"} \subseteq DOMAIN json
    /\ ~({"children", "expr"} \subseteq DOMAIN json)
    /\ node.type \in ChildrenTypes =>
          /\ "children" \in DOMAIN json
          /\ Len(json.children) = Len(node.children)
          /\ \A i \in 1..Len(node.children) :
                HasClaimedShape(json.children[i], node.children[i])
    /\ node.type \in ExprTypes =>
          /\ "expr" \in DOMAIN json
          /\ HasClaimedShape(json.expr, node.expr)

\* C12: every serialized node has type and value; Or, And, Not, Unknown and
\* Group nodes carry children in order, SearchField and FieldGroup nodes
\* carry expr, and no node carries both.
C12_SerializedShape ==
    pc = "done" => HasClaimedShape(result.ast_json, grammar.v)

LeafTypes == {"Word", "Phrase"}
ContainerTypes == {"SearchField", "Group", "FieldGroup", "OrOperation",
                   "AndOperation", "Not", "UnknownOperation"}

\* The nodes directly below a node, and the objects directly below its
\* serialized form.
NodeKids(node) ==
    IF HasAttr(node, "children") THEN node.children
    ELSE IF HasAttr(node, "expr") THEN <<node.expr>> ELSE <<>>

JsonKids(json) ==
    IF "children" \in DOMAIN json THEN json.children
    ELSE IF "expr" \in DOMAIN json THEN <<json.expr>> ELSE <<>>

RECURSIVE ValuesLeafOnly(_, _)
ValuesLeafOnly(json, node) ==
    /\ node.type \in LeafTypes => json.value = PyStr(node.value)
    /\ node.type \in ContainerTypes => json.value = PyNone
    /\ Len(JsonKids(json)) = Len(NodeKids(node))
    /\ \A i \in 1..Len(NodeKids(node)) :
           ValuesLeafOnly(JsonKids(json)[i], NodeKids(node)[i])

RECURSIVE ValuesLeafOrFieldName(_, _)
ValuesLeafOrFieldName(json, node) ==
    /\ node.type \in LeafTypes => json.value = PyStr(node.value)
    /\ node.type = "SearchField" => json.value = PyStr(node.name)
    /\ node.type \in ContainerTypes \ {"SearchField"} => json.value = PyNone
    /\ Len(JsonKids(json)) = Len(NodeKids(node))
    /\ \A i \in 1..Len(NodeKids(node)) :
           ValuesLeafOrFieldName(JsonKids(json)[i], NodeKids(node)[i])

\* C13: in the serialized tree a leaf's value is its literal text and every
\* container's value, a SearchField's included, is null.
C13_ContainerValuesNull ==
    pc = "done" => ValuesLeafOnly(result.ast_json, grammar.v)

\* C13, amended: in the serialized tree the value of a Word or Phrase is its
\* literal text, the value of a SearchField is its field name, and the value
\* of every other container is null.
C13_ValueIsTextOrFieldName ==
    pc = "done" => ValuesLeafOrFieldName(result.ast_json, grammar.v)

C13_Witness ==
    /\ pc = "done"
    /\ grammar.v = Group(<<SearchField("t", Phrase("\"b c\""))>>)
    /\ result.ast_json.value = PyNone
    /\ result.ast_json.children[1].value = PyStr("t")
    /\ result.ast_json.children[1].expr.value = PyStr("\"b c\"")

\* The node a tree renders as: a Group renders as its first child and a
\* FieldGroup as its inner expression.
RECURSIVE Unwrapped(_)
Unwrapped(node) ==
    IF node.type = "Group" /\ Len(node.children) > 0 THEN Unwrapped(node.children[1])
    ELSE IF node.type = "FieldGroup" THEN Unwrapped(node.expr)
    ELSE node

\* The render of each child of a node, in child order.
ChildTexts(node) ==
    [i \in 1..Len(node.children) |-> node_to_deterministic_text(node.children[i]).v]

\* The number of places of s where sub occurs.
CountOcc(s, sub) ==
    Cardinality({i \in 1..Len(s) : StartsWithAt(s, i, sub)})

RECURSIVE SumOcc(_, _)
SumOcc(texts, sub) ==
    IF Len(texts) = 0 THEN 0
    ELSE CountOcc(texts[1], sub) + SumOcc(Tail(texts), sub)

UnscopedWrap(type) ==
    IF type = "OrOperation" THEN "Include items that match ANY of: ("
    ELSE "Include items that match ALL of: ("

\* C14: an OrOperation or AndOperation that is not the direct content of a
\* field's FieldGroup renders as its children's renders in child order, joined
\* with "; " inside Include items that match ANY of: (...) or ALL of: (...),
\* and adds one "; " less than it has children.
C14_UnscopedOrAndRender ==
    (pc = "done" /\ Unwrapped(grammar.v).type \in {"OrOperation", "AndOperation"}) =>
        LET node == Unwrapped(grammar.v)
            texts == ChildTexts(node)
        IN  /\ result.deterministic_text =
                   UnscopedWrap(node.type) \o Join("; ", texts) \o ")"
            /\ CountOcc(result.deterministic_text, "; ") =
                   Len(node.children) - 1 + SumOcc(texts, "; ")

C14_Witness ==
    /\ pc = "done"
    /\ grammar.v = OrOperation(<<Group(<<OrOperation(<<Phrase("\"b c\""), Word("a")>>)>>),
                                 Not(<<Phrase("\"b c\"")>>)>>)
    /\ result.deterministic_text =
           "Include items that match ANY of: (Include items that match ANY of: "
           \o "(\"b c\"; contains \"a\"); EXCLUDE items where: (\"b c\"))"

\* A SearchField whose inner expression is a FieldGroup wrapping an Or/And.
IsFieldScopedOp(node) ==
    /\ node.type = "SearchField"
    /\ node.expr.type = "FieldGroup"
    /\ node.expr.expr.type \in {"OrOperation", "AndOperation"}

\* What one child of a field-scoped Or/And contributes to the list.
FieldItemText(child) ==
    IF child.type = "Phrase" THEN child.value
    ELSE IF child.type = "Word" THEN "\"" \o child.value \o "\""
    ELSE node_to_deterministic_text(child).v

ScopedWrap(type) ==
    IF type = "OrOperation" THEN ": contains ANY of [" ELSE ": contains ALL of ["

\* C15: a SearchField over a FieldGroup over an Or/And renders as
\* <field>: contains ANY of [...] (ALL of for And), each direct child giving
\* its value verbatim (Phrase), its value in quotes (Word) or its full render
\* (anything else), joined with "; "; an Or/And outside that position, be it
\* the rendered root or the direct inner expression of a SearchField, keeps the
\* Include items that match wording and gets no bracket list.
C15_FieldScopedOrAndRender ==
    pc = "done" =>
        LET node == Unwrapped(grammar.v)
            det == result.deterministic_text
        IN  /\ IsFieldScopedOp(node) =>
                   LET op == node.expr.expr
                       items == [i \in 1..Len(op.children) |-> FieldItemText(op.children[i])]
                   IN  det = node.name \o ScopedWrap(op.type) \o Join("; ", items) \o "]"
            /\ node.type \in {"OrOperation", "AndOperation"} =>
                   /\ StartsWithAt(det, 1, UnscopedWrap(node.type))
                   /\ ~EndsWith(det, "]")
            /\ (node.type = "SearchField"
                /\ node.expr.type \in {"OrOperation", "AndOperation"}) =>
                   /\ StartsWithAt(det, 1, node.name \o ": " \o UnscopedWrap(node.expr.type))
                   /\ ~EndsWith(det, "]")

C15_Witness ==
    /\ pc = "done"
    /\ grammar.v = SearchField("t", FieldGroup(OrOperation(
           <<Group(<<OrOperation(<<Phrase("\"b c\""), Word("a")>>)>>), Word("a")>>)))
    /\ result.deterministic_text =
           "t: contains ANY of [Include items that match ANY of: "
           \o "(\"b c\"; contains \"a\"); \"a\"]"

\* C16: a Not with a first child renders as EXCLUDE items where: (<render of
\* the first child>), and every Not with that first child renders the same
\* whatever children follow it.
C16_NotRendersFirstChildOnly ==
    (pc = "done" /\ Unwrapped(grammar.v).type = "Not"
                 /\ Len(Unwrapped(grammar.v).children) > 0) =>
        LET first == Unwrapped(grammar.v).children[1]
            det == result.deterministic_text
        IN  /\ det = "EXCLUDE items where: ("
                     \o node_to_deterministic_text(first).v \o ")"
            /\ \A rest \in SeqsOf(Leaves, 0, MaxChildren) :
                   node_to_deterministic_text(Not(<<first>> \o rest)) = Ok(det)

C16_Witness ==
    /\ pc = "done"
    /\ grammar.v = Not(<<Word("a"), Phrase("\"b c\"")>>)
    /\ result.deterministic_text = "EXCLUDE items where: (contains \"a\")"

\* The tree of ("A" OR "B") NOT "C" for phrases a, b, c.
OrNotTree(a, b, c) ==
    UnknownOperation(<<Group(<<OrOperation(<<a, b>>)>>), Not(<<c>>)>>)

IsOrNotTree(node) ==
    \E a \in Phrases, b \in Phrases, c \in Phrases : node = OrNotTree(a, b, c)

\* C17: for the tree of ("A" OR "B") NOT "C", whatever the three phrases,
\* deterministic_text is Include items that match ANY of: ("A"; "B") EXCLUDE
\* items where: ("C") and narrative_text is Search for documents containing
\* any of the following: "A", "B" but exclude documents where "C".
C17_OrNotTexts ==
    (pc = "done" /\ IsOrNotTree(grammar.v)) =>
        LET a == grammar.v.children[1].children[1].children[1].value
            b == grammar.v.children[1].children[1].children[2].value
            c == grammar.v.children[2].children[1].value
        IN  /\ result.deterministic_text =
                   "Include items that match ANY of: (" \o a \o "; " \o b
                   \o ") EXCLUDE items where: (" \o c \o ")"
            /\ result.narrative_text =
                   "Search for documents containing any of the following: "
                   \o a \o ", " \o b \o " but exclude documents where " \o c \o "."

\* C18: a single Word w gives deterministic_text contains "w" and
\* narrative_text The term "w".; a single Phrase p gives deterministic_text p
\* and narrative_text p followed by one period.
C18_LeafTexts ==
    pc = "done" =>
        /\ grammar.v.type = "Word" =>
               /\ result.deterministic_text = "contains \"" \o grammar.v.value \o "\""
               /\ result.narrative_text = "The term \"" \o grammar.v.value \o "\"."
        /\ grammar.v.type = "Phrase" =>
               /\ result.deterministic_text = grammar.v.value
               /\ result.narrative_text = grammar.v.value \o "."

\* A node without the Groups around it.
RECURSIVE StripGroups(_)
StripGroups(node) ==
    IF node.type = "Group" /\ Len(node.children) > 0
    THEN StripGroups(node.children[1]) ELSE node

\* The Not clause of a tree: the tree itself, or the Not that its wrappers,
\* or the second place of its UnknownOperation, lead to.
RECURSIVE NotClause(_)
NotClause(node) ==
    IF node.type = "Group" /\ Len(node.children) > 0 THEN NotClause(node.children[1])
    ELSE IF node.type \in {"FieldGroup", "SearchField"} THEN NotClause(node.expr)
    ELSE IF node.type = "UnknownOperation" /\ Len(node.children) = 2
         THEN NotClause(node.children[2])
    ELSE node

\* The number of nodes of a type in a tree.
RECURSIVE CountType(_, _)
RECURSIVE CountTypeIn(_, _)
CountTypeIn(nodes, type) ==
    IF Len(nodes) = 0 THEN 0
    ELSE CountType(nodes[1], type) + CountTypeIn(Tail(nodes), type)

CountType(node, type) ==
    (IF node.type = type THEN 1 ELSE 0) + CountTypeIn(NodeKids(node), type)

\* The operation a tree's Not clause wraps, directly or through Groups, when
\* it is the only OrOperation or AndOperation of the tree; "none" otherwise.
NotWraps(tree) ==
    LET clause == NotClause(tree)
    IN  IF clause.type = "Not" /\ Len(clause.children) > 0
           /\ StripGroups(clause.children[1]).type \in {"OrOperation", "AndOperation"}
           /\ CountType(tree, "OrOperation") + CountType(tree, "AndOperation") = 1
        THEN StripGroups(clause.children[1]).type
        ELSE "none"

ExcludeAnyOf == "but exclude documents containing any of: "
ExcludeWhereSearchFor == "but exclude documents where Search for"
SearchForAnyOf == "Search for documents containing any of the following"
ExcludeWhereAnyOf == "but exclude documents where " \o SearchForAnyOf \o ": "
ExcludeWhereAllOf ==
    "but exclude documents where Search for documents that must contain all of the following: "

\* sub occurs in s, its first character upper-cased if it begins s.
ContainsAsSentence(s, sub) ==
    Contains(s, sub) \/ StartsWithAt(s, 1, Upper(CharAt(sub, 1)) \o PySliceFrom(sub, 1))

\* C19: when a Not wraps an OrOperation, directly or through a Group, the
\* narrative contains but exclude documents containing any of: and neither
\* but exclude documents where Search for nor Search for documents containing
\* any of the following.
C19_ExcludeAnyOfLiteral ==
    (pc = "done" /\ NotWraps(grammar.v) = "OrOperation") =>
        /\ Contains(result.narrative_text, ExcludeAnyOf)
        /\ ~Contains(result.narrative_text, ExcludeWhereSearchFor)
        /\ ~Contains(result.narrative_text, SearchForAnyOf)

\* C19, amended: when a Not wraps an OrOperation, directly or through a
\* Group, the narrative contains but exclude documents containing any of: ,
\* with a capital B where the clause begins the text, and neither but exclude
\* documents where Search for nor Search for documents containing any of the
\* following; the text after replacements 1 to 3 holds the uncollapsed wording
\* and replacement 4 removes it; when the Not wraps an AndOperation the
\* narrative keeps but exclude documents where Search for documents that must
\* contain all of the following: and has no collapsed wording.
C19_ExcludeAnyOfCollapse ==
    pc = "done" =>
        LET narr == result.narrative_text
            det == result.deterministic_text
        IN  /\ NotWraps(grammar.v) = "OrOperation" =>
                   /\ ContainsAsSentence(narr, ExcludeAnyOf)
                   /\ ~ContainsAsSentence(narr, ExcludeWhereSearchFor)
                   /\ ~Contains(narr, SearchForAnyOf)
                   /\ Contains(ApplyReplacements(det, 3), ExcludeWhereAnyOf)
                   /\ ~Contains(ApplyReplacements(det, 4), ExcludeWhereAnyOf)
            /\ NotWraps(grammar.v) = "AndOperation" =>
                   /\ ContainsAsSentence(narr, ExcludeWhereAllOf)
                   /\ ~ContainsAsSentence(narr, ExcludeAnyOf)

C19_Witness ==
    /\ pc = "done"
    /\ grammar.v = Not(<<Group(<<OrOperation(<<Word("a"), Phrase("\"b c\"")>>)>>)>>)
    /\ result.narrative_text =
           "But exclude documents containing any of: the term \"a\", \"b c\"."

\* Everything call c holds.
FrameOf(c) ==
    <<pc[c], query[c], grammar[c], ast_tree[c], deterministic_text[c],
      narrative_text[c], ast_json[c], result[c], raised[c]>>

CallFinishedAsAlone(c) ==
    pc[c] \in {"done", "raised"} =>
        /\ query[c] # PyNone
        /\ grammar[c] # PyNone
        /\ result[c] = Alone(query[c].s, grammar[c]).result
        /\ raised[c] = Alone(query[c].s, grammar[c]).raised
        /\ pc[c] = "done" <=> result[c] # PyNone

\* C20: in every interleaving of the calls of parse on one instance, a call
\* that has finished holds exactly the QueryResult, or the error, that its
\* query and its grammar outcome give when it runs alone, and no step changes
\* what two different calls hold.
C20_ConcurrentCallsIndependent ==
    /\ [](\A c \in Calls : CallFinishedAsAlone(c))
    /\ [][\A c \in Calls : \A d \in Calls \ {c} :
              FrameOf(c)' = FrameOf(c) \/ FrameOf(d)' = FrameOf(d)]_vars

C20_Witness ==
    /\ pc[1] = "done"
    /\ result[1].query = " a OR b "
    /\ result[1].narrative_text =
           "Search for documents containing any of the following: "
           \o "\"A\", \"b c\" but exclude documents where \"(c\"."
    /\ pc[2] = "raised"
    /\ query[2] = PyStr("((unclosed")
    /\ raised[2] = [kind |-> "ValueError",
                    msg |-> "Invalid Lucene query syntax: Illegal character"]

\* C21: once parse has returned a QueryResult, no later operation (a further
\* parse call, to_dict, a change to a dictionary to_dict gave, an assignment
\* to one of its fields) changes its query, deterministic_text, narrative_text
\* or ast_json.
C21_ResultImmutable ==
    [][held # PyNone => held' = held]_vars

NineVariants == LeafTypes \cup ContainerTypes

HasParen(s) == Contains(s, "(") \/ Contains(s, ")")

\* A well-formed tree of the nine variants (every Not and Group has a child)
\* whose leaf texts and field names have no parenthesis.
RECURSIVE ParenFreeTree(_)
ParenFreeTree(node) ==
    /\ node.type \in NineVariants
    /\ HasAttr(node, "value") => ~HasParen(node.value)
    /\ HasAttr(node, "name") => ~HasParen(node.name)
    /\ node.type \in {"Not", "Group"} => Len(node.children) > 0
    /\ \A i \in 1..Len(NodeKids(node)) : ParenFreeTree(NodeKids(node)[i])

\* C22: for a well-formed tree of the nine variants whose leaf texts and field
\* names have no parenthesis, every "(" of the deterministic text is the last
\* character of one of the three templates, the text after replacements 1 to 3
\* has no "(" and the narrative has no parenthesis at all.
C22_ParenFreeNarrative ==
    (pc = "done" /\ ParenFreeTree(grammar.v)) =>
        /\ ~HasBareOpenParen(result.deterministic_text)
        /\ ~Contains(ApplyReplacements(result.deterministic_text, 3), "(")
        /\ ~HasParen(result.narrative_text)

C22_Witness ==
    /\ pc = "done"
    /\ grammar.v = OrOperation(<<Group(<<OrOperation(<<Phrase("\"b c\""), Word("a")>>)>>),
                                 Not(<<Phrase("\"b c\"")>>)>>)
    /\ ParenFreeTree(grammar.v)
    /\ CountOcc(result.deterministic_text, "(") = 3
    /\ CountOcc(result.deterministic_text, ")") = 3
    /\ result.narrative_text =
           "Search for documents containing any of the following: "
           \o "Search for documents containing any of the following: "
           \o "\"b c\", the term \"a\", but exclude documents where \"b c\"."

\* The values of the Phrase nodes the renderer visits in a tree.
RECURSIVE RenderedPhrases(_)
RenderedPhrases(node) ==
    IF node.type = "Phrase" THEN {node.value}
    ELSE IF node.type \in {"SearchField", "FieldGroup"} THEN RenderedPhrases(node.expr)
    ELSE IF node.type \in {"OrOperation", "AndOperation", "UnknownOperation"}
         THEN UNION {RenderedPhrases(node.children[i]) : i \in 1..Len(node.children)}
    ELSE IF node.type \in {"Not", "Group"} /\ Len(node.children) > 0
         THEN RenderedPhrases(node.children[1])
    ELSE {}

\* No pattern of the normalizer's replacements occurs in s.
PatternFree(s) ==
    \A k \in 1..Len(Replacements) : ~Contains(s, Replacements[k][1])

\* C23: the value of a Phrase of the query appears verbatim in narrative_text
\* if none of the normalizer's patterns occurs in it, and otherwise appears
\* as the normalizer's replacements rewrite it.
C23_PhraseVerbatimOrRewritten ==
    pc = "done" =>
        \A v \in RenderedPhrases(grammar.v) :
            IF PatternFree(v)
            THEN Contains(result.narrative_text, v)
            ELSE /\ ~Contains(result.narrative_text, v)
                 /\ Contains(result.narrative_text, ApplyReplacements(v, Len(Replacements)))

\* The message of the ValueError that reaches the route for a failure e of
\* the library.
DetailFor(e) ==
    IF e.kind = "ValueError" THEN e.msg
    ELSE "Invalid Lucene query syntax: " \o e.msg

\* C24: every failure while the controller handles a request, of either
\* route, reaches the route as a ValueError and is answered 400 with the
\* error message as detail, no answer is a 500, and a QueryResponse is
\* returned exactly when the parse succeeded (a file that is blank or not
\* UTF-8 is refused before the controller is called, without a body).
C24_FailuresAnsweredBadRequest ==
    /\ (pc \in {"route", "file_route"} /\ grammar # PyNone /\ raised # NoError) =>
           raised.kind = "ValueError"
    /\ response # PyNone => response.status # 500
    /\ (pc = "responded" /\ grammar # PyNone) =>
           LET alone == Alone(query.s, grammar)
           IN  IF alone.result # PyNone
               THEN response = HttpResponse(200, PyNone, QueryResponse(alone.result))
               ELSE response = HttpResponse(400, PyStr(DetailFor(alone.raised)), PyNone)
    /\ (pc = "responded" /\ grammar = PyNone) => response.body = PyNone

C24_Witness ==
    /\ pc = "responded"
    /\ query = PyStr("a OR b")
    /\ grammar = Ok(Not(<<>>))
    /\ raised = [kind |-> "ValueError",
                 msg |-> "Invalid Lucene query syntax: list index out of range"]
    /\ response = HttpResponse(400,
           PyStr("Invalid Lucene query syntax: list index out of range"), PyNone)

====
